---- MODULE Spec2Model ----
(***************************************************************************)
(* Model of axaj (src/src/index.js): the request executor AJAX(), the      *)
(* three handler registries and the shared outage monitor noNetworkJitter. *)
(*                                                                         *)
(* JavaScript runs the module on one thread: every action below is one     *)
(* run-to-completion job of the event loop (a public call, the settling of *)
(* a fetch promise, the settling of a checkNetwork() promise, a timer      *)
(* firing).  The collaborators that are not part of the module's source    *)
(* (IntervalJitter, ImmutableLinkedOrderedMap, checkNetwork, fetch) are    *)
(* modelled at their interface.                                            *)
(***************************************************************************)
EXTENDS Bags, FiniteSets, Integers, Sequences, TLC

VARIABLES
  checkNetworkInterval,       \* let checkNetworkInterval
  noNetworkHandlerId,         \* let noNetworkHandlerId
  networkRestoredHandlerId,   \* let networkRestoredHandlerId
  stillNoNetworkHandlerId,    \* let stillNoNetworkHandlerId
  onNoNetworkHandlers,        \* ordered map handle -> handler
  onNetworkRestoredHandlers,  \* ordered map handle -> handler
  onStillNoNetworkHandlers,   \* ordered map handle -> handler
  noNetworkJitter,            \* the IntervalJitter instance
  calls,                      \* bag of AJAX() calls not yet finished
  pollProbes,                 \* checkNetwork() promises pending for the timer callback
  fired,                      \* handlers invoked by the last job, in order
  settled,                    \* what the last settled AJAX() promise gave its caller
  ev,                         \* the last job
  CSRFTokenName,              \* let CSRFTokenName
  CSRFTokenValue,             \* let CSRFTokenValue
  tokenSource,                \* what a token-producing function returns when called now
  posted                      \* argument and body of the POST helper the last job ran

vars == <<checkNetworkInterval, noNetworkHandlerId, networkRestoredHandlerId,
          stillNoNetworkHandlerId, onNoNetworkHandlers, onNetworkRestoredHandlers,
          onStillNoNetworkHandlers, noNetworkJitter, calls, pollProbes, fired,
          settled, ev, CSRFTokenName, CSRFTokenValue, tokenSource, posted>>

csrf == <<CSRFTokenName, CSRFTokenValue, tokenSource>>

(***************************************************************************)
(* Bounds of the model.                                                    *)
(***************************************************************************)
\* handlers added over a run, all registries together
MaxAdds == 2

\* the adds of a run that exercises the registries: three handles in one registry,
\* so that two survive a removal
MaxRegistryAdds == 3
\* AJAX() calls in flight at once
MaxCalls == 2
\* checkNetwork() promises of the timer callback pending at once
MaxProbes == 2

(***************************************************************************)
(* Values.                                                                 *)
(***************************************************************************)
DefaultCheckNetworkInterval == 3000

\* values handed to config.setCheckNetworkInterval
Intervals == {DefaultCheckNetworkInterval, 1000}

\* interval bounds of an IntervalJitter built without options: the library's own
LibraryInterval == 0

\* a handler either returns or throws when invoked
Handlers == {"returns", "throws"}

\* what a checkNetwork() promise settles with
ProbeResults == {"reachable", "unreachable", "rejected"}

Response(status) ==
  [type |-> "Response", ok |-> (status >= 200 /\ status <= 299), status |-> status]

\* the cause fetch() rejects with; ok and status are never read on it
NetworkError == [type |-> "TypeError", ok |-> FALSE, status |-> 0]

NoValue == [type |-> "none", ok |-> FALSE, status |-> 0]

\* the ways a fetch promise settles
TransportOutcomes ==
  { [settled |-> "resolve", value |-> Response(200)],
    [settled |-> "resolve", value |-> Response(404)],
    [settled |-> "reject",  value |-> NetworkError] }

NoTransport == [settled |-> "none", value |-> NoValue]
Pending == [status |-> "pending", value |-> NoValue]
NoEvent == [op |-> "init", result |-> "none", value |-> NoValue]

\* JavaScript values of the CSRF settings: undefined, a string, a function
Undefined == [kind |-> "undefined", str |-> ""]
Str(s) == [kind |-> "string", str |-> s]
Producer == [kind |-> "function", str |-> ""]

\* values handed to config.setCSRFTokenName and config.setCSRFTokenValue
TokenNames == {Undefined, Str(""), Str("csrf"), Str("a")}
TokenValues == {Undefined, Str(""), Str("tok"), Producer}

\* what a token-producing function may return
TokenSources == {"dyn1", "dyn2"}

\* a JavaScript object: its fields in insertion order, no key twice
Field(key, value) == [key |-> key, value |-> value]
Keys(object) == {object[i].key : i \in DOMAIN object}
Get(object, key) ==
  (CHOOSE field \in {object[i] : i \in DOMAIN object} : field.key = key).value

\* the objects handed to the POST helpers: no field, a field "a", a field "csrf",
\* and both in either order of insertion
DataObjects ==
  {<<>>, <<Field("a", "1")>>, <<Field("csrf", "1")>>,
   <<Field("a", "1"), Field("csrf", "1")>>,
   <<Field("csrf", "1"), Field("a", "1")>>}

\* an entry of a FormData: a field, or a file sent under its own name
NoFilename == ""
Entry(key, value) == [key |-> key, value |-> value, filename |-> NoFilename]
FileEntry(key, file) == [key |-> key, value |-> file, filename |-> file]

\* the FormData instances handed to POSTFormData: empty, one field, and one that
\* an earlier POSTFormData already appended a token to
FormDatas ==
  {<<>>, <<Entry("a", "1")>>, <<Entry("a", "1"), Entry("csrf", "tok")>>}

\* the file lists and the form key handed to POSTUploadFiles
FileLists == {<<>>, <<"a.txt">>, <<"a.txt", "b.txt">>}
FilesFormKeys == {"files[]"}

\* data: the helper's argument; dataAfter: that argument once the helper has
\* returned; body: what is handed to fetch; bodyIsData: body is the argument itself
NoPost == [data |-> <<>>, dataAfter |-> <<>>, body |-> <<>>, contentType |-> "none",
           bodyIsData |-> FALSE]

(***************************************************************************)
(* ImmutableLinkedOrderedMap, as the module uses it: a sequence of         *)
(* (id, handler) entries in insertion order.                               *)
(***************************************************************************)
HasKey(map, id) == \E i \in DOMAIN map : map[i].id = id

\* map.set({[id]: handler})
MapSet(map, id, handler) ==
  IF HasKey(map, id)
    THEN [i \in DOMAIN map |->
            IF map[i].id = id THEN [id |-> id, handler |-> handler] ELSE map[i]]
    ELSE Append(map, [id |-> id, handler |-> handler])

\* map.unset(id)
MapUnset(map, id) == SelectSeq(map, LAMBDA e : e.id # id)

RECURSIVE Invoked(_)
\* map.forEach(handler => handler()): the ids invoked, in order; a handler that
\* throws ends the iteration
Invoked(map) ==
  IF map = <<>> THEN <<>>
  ELSE IF Head(map).handler = "throws" THEN <<Head(map).id>>
  ELSE <<Head(map).id>> \o Invoked(Tail(map))

Throws(map) == \E i \in DOMAIN map : map[i].handler = "throws"

Tag(name, ids) == [i \in DOMAIN ids |-> <<name, ids[i]>>]

(***************************************************************************)
(* IntervalJitter: running flag, interval bounds and the live timers.      *)
(***************************************************************************)
JitterSetMinInterval(j, ms) == [j EXCEPT !.minInterval = ms]
JitterSetMaxInterval(j, ms) == [j EXCEPT !.maxInterval = ms]

\* run(): no effect on a running instance
JitterRun(j) ==
  IF j.running THEN j ELSE [j EXCEPT !.running = TRUE, !.timers = j.timers + 1]

\* stop(): clears the timer
JitterStop(j) == [j EXCEPT !.running = FALSE, !.timers = 0]

(***************************************************************************)
(* Initial state: the module has just been loaded.                         *)
(***************************************************************************)
Init ==
  /\ checkNetworkInterval = DefaultCheckNetworkInterval
  /\ noNetworkHandlerId = 0
  /\ networkRestoredHandlerId = 0
  /\ stillNoNetworkHandlerId = 0
  /\ onNoNetworkHandlers = <<>>
  /\ onNetworkRestoredHandlers = <<>>
  /\ onStillNoNetworkHandlers = <<>>
  /\ noNetworkJitter = [running |-> FALSE, timers |-> 0,
                        minInterval |-> LibraryInterval,
                        maxInterval |-> LibraryInterval]
  /\ calls = EmptyBag
  /\ pollProbes = 0
  /\ fired = <<>>
  /\ settled = Pending
  /\ ev = NoEvent
  /\ CSRFTokenName = Undefined
  /\ CSRFTokenValue = Undefined
  /\ tokenSource = "dyn1"
  /\ posted = NoPost

Event(op, result, value) == [op |-> op, result |-> result, value |-> value]

registries == <<noNetworkHandlerId, networkRestoredHandlerId, stillNoNetworkHandlerId,
                onNoNetworkHandlers, onNetworkRestoredHandlers,
                onStillNoNetworkHandlers>>

Adds == noNetworkHandlerId + networkRestoredHandlerId + stillNoNetworkHandlerId

(***************************************************************************)
(* config.setCheckNetworkInterval(interval)                                *)
(***************************************************************************)
SetCheckNetworkInterval ==
  \E interval \in Intervals :
    /\ checkNetworkInterval' = interval
    /\ fired' = <<>>
    /\ settled' = Pending
    /\ ev' = Event("setCheckNetworkInterval", "none", NoValue)
    /\ posted' = NoPost
    /\ UNCHANGED csrf
    /\ UNCHANGED <<registries, noNetworkJitter, calls, pollProbes>>

(***************************************************************************)
(* The six registry operations.  A remove is tried with every id issued so *)
(* far and with the first id not issued yet.                               *)
(***************************************************************************)
\* addOnNoNetworkHandler taking the next id from the size of the registry
AddOnNoNetworkHandlerCallBySize(handler) ==
  /\ noNetworkHandlerId' = Len(onNoNetworkHandlers) + 1
  /\ onNoNetworkHandlers' =
       MapSet(onNoNetworkHandlers, Len(onNoNetworkHandlers) + 1, handler)
  /\ fired' = <<>>
  /\ settled' = Pending
  /\ ev' = Event("addOnNoNetworkHandler", "none", NoValue)
  /\ posted' = NoPost
  /\ UNCHANGED csrf
  /\ UNCHANGED <<checkNetworkInterval, networkRestoredHandlerId,
                 stillNoNetworkHandlerId, onNetworkRestoredHandlers,
                 onStillNoNetworkHandlers, noNetworkJitter, calls, pollProbes>>

\* addOnNoNetworkHandler(handler)
AddOnNoNetworkHandlerCall(handler) ==
  /\ noNetworkHandlerId' = noNetworkHandlerId + 1
  /\ onNoNetworkHandlers' =
       MapSet(onNoNetworkHandlers, noNetworkHandlerId + 1, handler)
  /\ fired' = <<>>
  /\ settled' = Pending
  /\ ev' = Event("addOnNoNetworkHandler", "none", NoValue)
  /\ posted' = NoPost
  /\ UNCHANGED csrf
  /\ UNCHANGED <<checkNetworkInterval, networkRestoredHandlerId,
                 stillNoNetworkHandlerId, onNetworkRestoredHandlers,
                 onStillNoNetworkHandlers, noNetworkJitter, calls, pollProbes>>

AddOnNoNetworkHandler ==
  \E handler \in Handlers : Adds < MaxAdds /\ AddOnNoNetworkHandlerCall(handler)

\* removeOnNoNetworkHandler filling the hole with the last entry
RemoveOnNoNetworkHandlerCallSwapRemove(handlerId) ==
  /\ onNoNetworkHandlers' =
       LET map == onNoNetworkHandlers
           at == {i \in DOMAIN map : map[i].id = handlerId} IN
         IF at = {}
           THEN map
           ELSE [i \in 1..(Len(map) - 1) |->
                   IF i \in at THEN map[Len(map)] ELSE map[i]]
  /\ fired' = <<>>
  /\ settled' = Pending
  /\ ev' = Event("removeOnNoNetworkHandler", "none", NoValue)
  /\ posted' = NoPost
  /\ UNCHANGED csrf
  /\ UNCHANGED <<checkNetworkInterval, noNetworkHandlerId,
                 networkRestoredHandlerId, stillNoNetworkHandlerId,
                 onNetworkRestoredHandlers, onStillNoNetworkHandlers,
                 noNetworkJitter, calls, pollProbes>>

\* removeOnNoNetworkHandler unsetting the id in the restored registry
RemoveOnNoNetworkHandlerCallWrongRegistry(handlerId) ==
  /\ onNetworkRestoredHandlers' = MapUnset(onNetworkRestoredHandlers, handlerId)
  /\ fired' = <<>>
  /\ settled' = Pending
  /\ ev' = Event("removeOnNoNetworkHandler", "none", NoValue)
  /\ posted' = NoPost
  /\ UNCHANGED csrf
  /\ UNCHANGED <<checkNetworkInterval, noNetworkHandlerId,
                 networkRestoredHandlerId, stillNoNetworkHandlerId,
                 onNoNetworkHandlers, onStillNoNetworkHandlers,
                 noNetworkJitter, calls, pollProbes>>

\* removeOnNoNetworkHandler giving the last id back
RemoveOnNoNetworkHandlerCallFreesId(handlerId) ==
  /\ onNoNetworkHandlers' = MapUnset(onNoNetworkHandlers, handlerId)
  /\ noNetworkHandlerId' =
       IF noNetworkHandlerId > 0 THEN noNetworkHandlerId - 1 ELSE 0
  /\ fired' = <<>>
  /\ settled' = Pending
  /\ ev' = Event("removeOnNoNetworkHandler", "none", NoValue)
  /\ posted' = NoPost
  /\ UNCHANGED csrf
  /\ UNCHANGED <<checkNetworkInterval,
                 networkRestoredHandlerId, stillNoNetworkHandlerId,
                 onNetworkRestoredHandlers, onStillNoNetworkHandlers,
                 noNetworkJitter, calls, pollProbes>>

\* removeOnNoNetworkHandler(handlerId)
RemoveOnNoNetworkHandlerCall(handlerId) ==
  /\ onNoNetworkHandlers' = MapUnset(onNoNetworkHandlers, handlerId)
  /\ fired' = <<>>
  /\ settled' = Pending
  /\ ev' = Event("removeOnNoNetworkHandler", "none", NoValue)
  /\ posted' = NoPost
  /\ UNCHANGED csrf
  /\ UNCHANGED <<checkNetworkInterval, noNetworkHandlerId,
                 networkRestoredHandlerId, stillNoNetworkHandlerId,
                 onNetworkRestoredHandlers, onStillNoNetworkHandlers,
                 noNetworkJitter, calls, pollProbes>>

RemoveOnNoNetworkHandler ==
  \E handlerId \in 1..(noNetworkHandlerId + 1) : RemoveOnNoNetworkHandlerCall(handlerId)

\* addOnNetworkRestoredHandler(handler)
AddOnNetworkRestoredHandlerCall(handler) ==
  /\ networkRestoredHandlerId' = networkRestoredHandlerId + 1
  /\ onNetworkRestoredHandlers' =
       MapSet(onNetworkRestoredHandlers, networkRestoredHandlerId + 1, handler)
  /\ fired' = <<>>
  /\ settled' = Pending
  /\ ev' = Event("addOnNetworkRestoredHandler", "none", NoValue)
  /\ posted' = NoPost
  /\ UNCHANGED csrf
  /\ UNCHANGED <<checkNetworkInterval, noNetworkHandlerId,
                 stillNoNetworkHandlerId, onNoNetworkHandlers,
                 onStillNoNetworkHandlers, noNetworkJitter, calls, pollProbes>>

AddOnNetworkRestoredHandler ==
  \E handler \in Handlers : Adds < MaxAdds /\ AddOnNetworkRestoredHandlerCall(handler)

\* removeOnNetworkRestoredHandler(handlerId)
RemoveOnNetworkRestoredHandlerCall(handlerId) ==
  /\ onNetworkRestoredHandlers' = MapUnset(onNetworkRestoredHandlers, handlerId)
  /\ fired' = <<>>
  /\ settled' = Pending
  /\ ev' = Event("removeOnNetworkRestoredHandler", "none", NoValue)
  /\ posted' = NoPost
  /\ UNCHANGED csrf
  /\ UNCHANGED <<checkNetworkInterval, noNetworkHandlerId,
                 networkRestoredHandlerId, stillNoNetworkHandlerId,
                 onNoNetworkHandlers, onStillNoNetworkHandlers,
                 noNetworkJitter, calls, pollProbes>>

RemoveOnNetworkRestoredHandler ==
  \E handlerId \in 1..(networkRestoredHandlerId + 1) : RemoveOnNetworkRestoredHandlerCall(handlerId)

\* addOnStillNoNetworkHandler(handler)
AddOnStillNoNetworkHandlerCall(handler) ==
  /\ stillNoNetworkHandlerId' = stillNoNetworkHandlerId + 1
  /\ onStillNoNetworkHandlers' =
       MapSet(onStillNoNetworkHandlers, stillNoNetworkHandlerId + 1, handler)
  /\ fired' = <<>>
  /\ settled' = Pending
  /\ ev' = Event("addOnStillNoNetworkHandler", "none", NoValue)
  /\ posted' = NoPost
  /\ UNCHANGED csrf
  /\ UNCHANGED <<checkNetworkInterval, noNetworkHandlerId,
                 networkRestoredHandlerId, onNoNetworkHandlers,
                 onNetworkRestoredHandlers, noNetworkJitter, calls, pollProbes>>

AddOnStillNoNetworkHandler ==
  \E handler \in Handlers : Adds < MaxAdds /\ AddOnStillNoNetworkHandlerCall(handler)

\* removeOnStillNoNetworkHandler(handlerId)
RemoveOnStillNoNetworkHandlerCall(handlerId) ==
  /\ onStillNoNetworkHandlers' = MapUnset(onStillNoNetworkHandlers, handlerId)
  /\ fired' = <<>>
  /\ settled' = Pending
  /\ ev' = Event("removeOnStillNoNetworkHandler", "none", NoValue)
  /\ posted' = NoPost
  /\ UNCHANGED csrf
  /\ UNCHANGED <<checkNetworkInterval, noNetworkHandlerId,
                 networkRestoredHandlerId, stillNoNetworkHandlerId,
                 onNoNetworkHandlers, onNetworkRestoredHandlers,
                 noNetworkJitter, calls, pollProbes>>

RemoveOnStillNoNetworkHandler ==
  \E handlerId \in 1..(stillNoNetworkHandlerId + 1) : RemoveOnStillNoNetworkHandlerCall(handlerId)

(***************************************************************************)
(* AJAX(fetchPromise): the try block and the catch clause.                 *)
(***************************************************************************)
Resolved(value) == [status |-> "resolved", value |-> value]
Rejected(value) == [status |-> "rejected", value |-> value]

\* try { response = await fetchPromise; if (response.ok) return response;
\*       throw response; }
AJAXTry(t) ==
  IF t.settled = "reject" THEN [thrown |-> TRUE, value |-> t.value]
  ELSE IF t.value.ok THEN [thrown |-> FALSE, value |-> t.value]
  ELSE [thrown |-> TRUE, value |-> t.value]

\* AJAX with the catch clause not rethrowing: the caller gets a fulfilled promise
AJAXSettleSwallow(t) ==
  LET r == AJAXTry(t) IN
    IF r.thrown
      THEN [outcome |-> Resolved(NoValue), probe |-> TRUE]
      ELSE [outcome |-> Resolved(r.value), probe |-> FALSE]

\* AJAX with the connectivity check in a finally block: it runs on success too
AJAXSettleFinally(t) ==
  LET r == AJAXTry(t) IN
    IF r.thrown
      THEN [outcome |-> Rejected(r.value), probe |-> TRUE]
      ELSE [outcome |-> Resolved(r.value), probe |-> TRUE]

\* AJAX with "throw response" outside the try block: only a rejected fetch reaches
\* the catch clause
AJAXSettleHttpUncaught(t) ==
  LET r == AJAXTry(t) IN
    IF r.thrown
      THEN [outcome |-> Rejected(r.value), probe |-> (t.settled = "reject")]
      ELSE [outcome |-> Resolved(r.value), probe |-> FALSE]

\* AJAX awaiting checkNetwork() before it rethrows: the promise stays pending
AJAXSettleAwaitProbe(t) ==
  LET r == AJAXTry(t) IN
    IF r.thrown
      THEN [outcome |-> Pending, probe |-> TRUE]
      ELSE [outcome |-> Resolved(r.value), probe |-> FALSE]

\* the whole function body up to the settling of its promise: what the caller
\* gets, and whether checkNetwork() was called on the way
AJAXSettle(t) ==
  LET r == AJAXTry(t) IN
    IF r.thrown
      THEN [outcome |-> Rejected(r.value), probe |-> TRUE]
      ELSE [outcome |-> Resolved(r.value), probe |-> FALSE]

\* a start that leaves the interval bounds of a running monitor as they are
StartMonitorKeepBounds(j, interval) ==
  IF j.running
    THEN j
    ELSE JitterRun(JitterSetMaxInterval(JitterSetMinInterval(j, interval), interval))

\* a start that schedules a timer of its own on every failure
StartMonitorOwnTimer(j, interval) ==
  [j EXCEPT !.minInterval = interval, !.maxInterval = interval,
            !.running = TRUE, !.timers = j.timers + 1]

\* noNetworkJitter.setMinInterval(i); setMaxInterval(i); run()
StartMonitor(j, interval) ==
  JitterRun(JitterSetMaxInterval(JitterSetMinInterval(j, interval), interval))

\* the catch clause's continuation notifying only when the monitor is not running
OnFailureProbeOnce(result, map, j, interval) ==
  IF result = "unreachable" /\ ~j.running
    THEN [fired |-> Tag("noNetwork", Invoked(map)),
          jitter |-> IF Throws(map) THEN j ELSE StartMonitor(j, interval)]
    ELSE [fired |-> <<>>, jitter |-> j]

\* the catch clause's continuation calling each handler in a try/catch of its own
OnFailureProbeIsolated(result, map, j, interval) ==
  IF result = "unreachable"
    THEN [fired |-> [i \in DOMAIN map |-> <<"noNetwork", map[i].id>>],
          jitter |-> StartMonitor(j, interval)]
    ELSE [fired |-> <<>>, jitter |-> j]

\* the catch clause's continuation with its test inverted
OnFailureProbeInverted(result, map, j, interval) ==
  IF result = "reachable"
    THEN [fired |-> Tag("noNetwork", Invoked(map)),
          jitter |-> IF Throws(map) THEN j ELSE StartMonitor(j, interval)]
    ELSE [fired |-> <<>>, jitter |-> j]

\* the catch clause's continuation starting the monitor before it notifies
OnFailureProbeStartFirst(result, map, j, interval) ==
  IF result = "unreachable"
    THEN [fired |-> Tag("noNetwork", Invoked(map)),
          jitter |-> StartMonitor(j, interval)]
    ELSE [fired |-> <<>>, jitter |-> j]

\* checkNetwork().then(isNetworkReachable => {...}) of the catch clause; a
\* rejected checkNetwork() promise never calls the function
OnFailureProbe(result, map, j, interval) ==
  IF result = "unreachable"
    THEN [fired |-> Tag("noNetwork", Invoked(map)),
          jitter |-> IF Throws(map) THEN j ELSE StartMonitor(j, interval)]
    ELSE [fired |-> <<>>, jitter |-> j]

\* the timer callback's continuation stopping the monitor on a rejected probe too
OnPollProbeGiveUp(result, j, restored, still) ==
  CASE result = "reachable" ->
         [fired |-> Tag("networkRestored", Invoked(restored)),
          jitter |-> JitterStop(j)]
    [] result = "unreachable" ->
         [fired |-> Tag("stillNoNetwork", Invoked(still)), jitter |-> j]
    [] OTHER -> [fired |-> <<>>, jitter |-> JitterStop(j)]

\* the timer callback's continuation notifying the restoration without stopping
OnPollProbeNoStop(result, j, restored, still) ==
  CASE result = "reachable" ->
         [fired |-> Tag("networkRestored", Invoked(restored)), jitter |-> j]
    [] result = "unreachable" ->
         [fired |-> Tag("stillNoNetwork", Invoked(still)), jitter |-> j]
    [] OTHER -> [fired |-> <<>>, jitter |-> j]

\* the timer callback's continuation firing the wrong registry when unreachable
OnPollProbeWrongRegistry(result, j, restored, still) ==
  CASE result = "reachable" ->
         [fired |-> Tag("networkRestored", Invoked(restored)),
          jitter |-> JitterStop(j)]
    [] result = "unreachable" ->
         [fired |-> Tag("networkRestored", Invoked(restored)), jitter |-> j]
    [] OTHER -> [fired |-> <<>>, jitter |-> j]

\* the timer callback's continuation with a catch that notifies as if unreachable
OnPollProbeCatch(result, j, restored, still) ==
  CASE result = "reachable" ->
         [fired |-> Tag("networkRestored", Invoked(restored)),
          jitter |-> JitterStop(j)]
    [] OTHER ->
         [fired |-> Tag("stillNoNetwork", Invoked(still)), jitter |-> j]

\* checkNetwork().then(isNetworkReachable => {...}) of the timer callback
OnPollProbe(result, j, restored, still) ==
  CASE result = "reachable" ->
         [fired |-> Tag("networkRestored", Invoked(restored)),
          jitter |-> JitterStop(j)]
    [] result = "unreachable" ->
         [fired |-> Tag("stillNoNetwork", Invoked(still)), jitter |-> j]
    [] OTHER -> [fired |-> <<>>, jitter |-> j]

One(c) == SetToBag({c})

Fetching == [phase |-> "fetching", transport |-> NoTransport, outcome |-> Pending]

(***************************************************************************)
(* GET / POST: AJAX(fetch(...)) is entered and waits for the fetch promise *)
(***************************************************************************)
Request ==
  /\ BagCardinality(calls) < MaxCalls
  /\ calls' = calls (+) One(Fetching)
  /\ fired' = <<>>
  /\ settled' = Pending
  /\ ev' = Event("request", "none", NoValue)
  /\ posted' = NoPost
  /\ UNCHANGED csrf
  /\ UNCHANGED <<checkNetworkInterval, registries, noNetworkJitter, pollProbes>>

(***************************************************************************)
(* The fetch promise of a call settles: AJAX() runs to its return or to    *)
(* the throw that ends its catch clause.                                   *)
(***************************************************************************)
AJAXFetchSettled ==
  \E t \in TransportOutcomes :
    /\ BagIn(Fetching, calls)
    /\ LET r == AJAXSettle(t) IN
         /\ calls' = (calls (-) One(Fetching)) (+)
                       (IF r.probe
                          THEN One([phase |-> "probing", transport |-> t,
                                    outcome |-> r.outcome])
                          ELSE EmptyBag)
         /\ settled' = r.outcome
    /\ fired' = <<>>
    /\ ev' = Event("fetchSettled", t.settled, t.value)
    /\ posted' = NoPost
    /\ UNCHANGED csrf
    /\ UNCHANGED <<checkNetworkInterval, registries, noNetworkJitter, pollProbes>>

(***************************************************************************)
(* The checkNetwork() promise of a catch clause settles.                   *)
(***************************************************************************)
AJAXCheckNetworkThen ==
  \E c \in BagToSet(calls), result \in ProbeResults :
    /\ c.phase = "probing"
    /\ LET r == OnFailureProbe(result, onNoNetworkHandlers, noNetworkJitter,
                               checkNetworkInterval) IN
         /\ fired' = r.fired
         /\ noNetworkJitter' = r.jitter
    /\ calls' = calls (-) One(c)
    /\ settled' = c.outcome
    /\ ev' = Event("failureProbe", result, c.transport.value)
    /\ posted' = NoPost
    /\ UNCHANGED csrf
    /\ UNCHANGED <<checkNetworkInterval, registries, pollProbes>>

(***************************************************************************)
(* One interval elapses: every live timer calls the function given to the  *)
(* IntervalJitter, which calls checkNetwork().                             *)
(***************************************************************************)
JitterTick ==
  /\ noNetworkJitter.timers >= 1
  /\ pollProbes + noNetworkJitter.timers <= MaxProbes
  /\ pollProbes' = pollProbes + noNetworkJitter.timers
  /\ fired' = <<>>
  /\ settled' = Pending
  /\ ev' = Event("tick", "none", NoValue)
  /\ posted' = NoPost
  /\ UNCHANGED csrf
  /\ UNCHANGED <<checkNetworkInterval, registries, noNetworkJitter, calls>>

(***************************************************************************)
(* A checkNetwork() promise of the timer callback settles.                 *)
(***************************************************************************)
JitterCheckNetworkThen ==
  \E result \in ProbeResults :
    /\ pollProbes > 0
    /\ pollProbes' = pollProbes - 1
    /\ LET r == OnPollProbe(result, noNetworkJitter, onNetworkRestoredHandlers,
                            onStillNoNetworkHandlers) IN
         /\ fired' = r.fired
         /\ noNetworkJitter' = r.jitter
    /\ settled' = Pending
    /\ ev' = Event("pollProbe", result, NoValue)
    /\ posted' = NoPost
    /\ UNCHANGED csrf
    /\ UNCHANGED <<checkNetworkInterval, registries, calls>>

(***************************************************************************)
(* CSRF decoration.                                                        *)
(***************************************************************************)
\* JavaScript truthiness of a setting
Truthy(v) == v.kind = "function" \/ (v.kind = "string" /\ v.str # "")

\* the token used as it is, a function never being called
crossSiteRequestForgeryTokenValueAsIs(value) == value.str

\* typeof value === "function" ? value() : value
crossSiteRequestForgeryTokenValue(value) ==
  IF value.kind = "function" THEN tokenSource ELSE value.str

\* { ...object, [key]: value }: a field already there keeps its place and takes
\* the value, a new field comes last
ObjectSet(object, key, value) ==
  IF key \in Keys(object)
    THEN [i \in DOMAIN object |->
            IF object[i].key = key THEN Field(key, value) ELSE object[i]]
    ELSE Append(object, Field(key, value))

\* { ...data, ...((name && value && { [name]: token }) || {}) }
decorateObjectWithCSRFTokenIfSet(data) ==
  IF Truthy(CSRFTokenName) /\ Truthy(CSRFTokenValue)
    THEN ObjectSet(data, CSRFTokenName.str,
                   crossSiteRequestForgeryTokenValue(CSRFTokenValue))
    ELSE data

\* config.setCSRFTokenName(name)
SetCSRFTokenName ==
  \E name \in TokenNames :
    /\ CSRFTokenName' = name
    /\ posted' = NoPost
    /\ fired' = <<>>
    /\ settled' = Pending
    /\ ev' = Event("setCSRFTokenName", "none", NoValue)
    /\ UNCHANGED <<CSRFTokenValue, tokenSource, checkNetworkInterval, registries,
                   noNetworkJitter, calls, pollProbes>>

\* config.setCSRFTokenValue(value)
SetCSRFTokenValue ==
  \E value \in TokenValues :
    /\ CSRFTokenValue' = value
    /\ posted' = NoPost
    /\ fired' = <<>>
    /\ settled' = Pending
    /\ ev' = Event("setCSRFTokenValue", "none", NoValue)
    /\ UNCHANGED <<CSRFTokenName, tokenSource, checkNetworkInterval, registries,
                   noNetworkJitter, calls, pollProbes>>

\* the page changes what the token-producing function will return
TokenSourceChanges ==
  \E token \in TokenSources :
    /\ token # tokenSource
    /\ tokenSource' = token
    /\ posted' = NoPost
    /\ fired' = <<>>
    /\ settled' = Pending
    /\ ev' = Event("tokenSourceChanges", "none", NoValue)
    /\ UNCHANGED <<CSRFTokenName, CSRFTokenValue, checkNetworkInterval, registries,
                   noNetworkJitter, calls, pollProbes>>

\* a POST helper decorates a copy of data, encodes it and enters AJAX(fetch(...));
\* data itself is left as the caller passed it
PostDecorated(op, contentType, data) ==
  /\ BagCardinality(calls) < MaxCalls
  /\ posted' = [data |-> data, dataAfter |-> data,
                body |-> decorateObjectWithCSRFTokenIfSet(data),
                contentType |-> contentType, bodyIsData |-> FALSE]
  /\ calls' = calls (+) One(Fetching)
  /\ fired' = <<>>
  /\ settled' = Pending
  /\ ev' = Event(op, "none", NoValue)
  /\ UNCHANGED <<csrf, checkNetworkInterval, registries, noNetworkJitter,
                 pollProbes>>

\* POSTJSON(URI, data)
POSTJSON ==
  \E data \in DataObjects : PostDecorated("POSTJSON", "application/json", data)

\* POSTFormURLEncoded(URI, data)
POSTFormURLEncoded ==
  \E data \in DataObjects :
    PostDecorated("POSTFormURLEncoded", "application/x-www-form-urlencoded", data)

\* formData.append(key, value)
FormDataAppend(form, key, value) == Append(form, Entry(key, value))

\* if (CSRFTokenName && CSRFTokenValue) formData.append(name, token): the
\* FormData after the statement
AppendCSRFTokenIfSet(formData) ==
  IF Truthy(CSRFTokenName) /\ Truthy(CSRFTokenValue)
    THEN FormDataAppend(formData, CSRFTokenName.str,
                        crossSiteRequestForgeryTokenValue(CSRFTokenValue))
    ELSE formData

\* formData(data): a new FormData with one entry for each field of data, in the
\* order of Object.keys(data)
FormDataOf(data) == [i \in DOMAIN data |-> Entry(data[i].key, data[i].value)]

\* for (i ...) form.append(filesFormKey, files[i], files[i].name)
AppendFiles(form, filesFormKey, files) ==
  form \o [i \in 1..Len(files) |-> FileEntry(filesFormKey, files[i])]

\* POSTFormData(URI, formData): the token is appended to the caller's FormData,
\* and that same FormData enters POST and AJAX(fetch(...))
POSTFormData ==
  \E formData \in FormDatas :
    /\ BagCardinality(calls) < MaxCalls
    /\ posted' = [data |-> formData, dataAfter |-> AppendCSRFTokenIfSet(formData),
                  body |-> AppendCSRFTokenIfSet(formData),
                  contentType |-> "none", bodyIsData |-> TRUE]
    /\ calls' = calls (+) One(Fetching)
    /\ fired' = <<>>
    /\ settled' = Pending
    /\ ev' = Event("POSTFormData", "none", NoValue)
    /\ UNCHANGED <<csrf, checkNetworkInterval, registries, noNetworkJitter,
                   pollProbes>>

\* POSTUploadFiles(URI, filesFormKey, files, data): a FormData built from data,
\* then the files, then POSTFormData on it
POSTUploadFiles ==
  \E filesFormKey \in FilesFormKeys, files \in FileLists, data \in DataObjects :
    /\ BagCardinality(calls) < MaxCalls
    /\ posted' = [data |-> data, dataAfter |-> data,
                  body |-> AppendCSRFTokenIfSet(
                             AppendFiles(FormDataOf(data), filesFormKey, files)),
                  contentType |-> "none", bodyIsData |-> FALSE]
    /\ calls' = calls (+) One(Fetching)
    /\ fired' = <<>>
    /\ settled' = Pending
    /\ ev' = Event("POSTUploadFiles", "none", NoValue)
    /\ UNCHANGED <<csrf, checkNetworkInterval, registries, noNetworkJitter,
                   pollProbes>>

Next ==
  \/ SetCheckNetworkInterval
  \/ AddOnNoNetworkHandler
  \/ RemoveOnNoNetworkHandler
  \/ AddOnNetworkRestoredHandler
  \/ RemoveOnNetworkRestoredHandler
  \/ AddOnStillNoNetworkHandler
  \/ RemoveOnStillNoNetworkHandler
  \/ Request
  \/ AJAXFetchSettled
  \/ AJAXCheckNetworkThen
  \/ JitterTick
  \/ JitterCheckNetworkThen

Spec == Init /\ [][Next]_vars

\* the registries exercised with up to MaxRegistryAdds handles, and every job that
\* fires one of them
NextRegistry ==
  \/ \E handler \in Handlers :
       Adds < MaxRegistryAdds /\ AddOnNoNetworkHandlerCall(handler)
  \/ \E handler \in Handlers :
       Adds < MaxRegistryAdds /\ AddOnNetworkRestoredHandlerCall(handler)
  \/ \E handler \in Handlers :
       Adds < MaxRegistryAdds /\ AddOnStillNoNetworkHandlerCall(handler)
  \/ RemoveOnNoNetworkHandler
  \/ RemoveOnNetworkRestoredHandler
  \/ RemoveOnStillNoNetworkHandler
  \/ Request
  \/ AJAXFetchSettled
  \/ AJAXCheckNetworkThen
  \/ JitterTick
  \/ JitterCheckNetworkThen

SpecRegistry == Init /\ [][NextRegistry]_vars

\* the timer of a running IntervalJitter elapses again and again, and every
\* checkNetwork() promise of the timer callback settles
FairSpec == Spec /\ WF_vars(JitterTick) /\ WF_vars(JitterCheckNetworkThen)

\* the CSRF settings and the POST helpers, with the calls they make
NextCSRF ==
  \/ SetCSRFTokenName
  \/ SetCSRFTokenValue
  \/ TokenSourceChanges
  \/ POSTJSON
  \/ POSTFormURLEncoded
  \/ POSTFormData
  \/ POSTUploadFiles
  \/ AJAXFetchSettled
  \/ AJAXCheckNetworkThen
  \/ JitterTick
  \/ JitterCheckNetworkThen

SpecCSRF == Init /\ [][NextCSRF]_vars

(***************************************************************************)
(* Vocabulary of the properties.                                           *)
(***************************************************************************)
Running == noNetworkJitter.running

\* every entry of a registry, in insertion order
AllOf(name, map) == [i \in DOMAIN map |-> <<name, map[i].id>>]

\* f is the registry in insertion order, cut after the first handler that throws
UpToFirstThrow(name, map, f) ==
  \E n \in 0..Len(map) :
    /\ f = [i \in 1..n |-> <<name, map[i].id>>]
    /\ \A i \in 1..(n - 1) : map[i].handler = "returns"
    /\ n < Len(map) => (n >= 1 /\ map[n].handler = "throws")

FiredOf(name, f) == \E i \in DOMAIN f : f[i][1] = name

\* the last job was the continuation of a polling probe / of a catch-clause probe
PollProbeDone(e, result) == e.op = "pollProbe" /\ e.result = result
FailureProbeDone(e, result) == e.op = "failureProbe" /\ e.result = result
FetchFailed(e) == e.op = "fetchSettled" /\ ~(e.result = "resolve" /\ e.value.ok)
FetchSucceeded(e) == e.op = "fetchSettled" /\ e.result = "resolve" /\ e.value.ok

Probing(t) == [phase |-> "probing", transport |-> t, outcome |-> Rejected(t.value)]

(***************************************************************************)
(* C1: once the first polling probe has reported reachable the monitor is  *)
(* Idle and the restored registry has been fired; while the monitor is     *)
(* Idle no job fires a restored or a still-no-network handler, whatever    *)
(* probes were still in flight when it stopped.                            *)
(***************************************************************************)
C1_IdleMonitorIsSilent ==
  [][ /\ (Running /\ PollProbeDone(ev', "reachable")) =>
           /\ ~Running'
           /\ UpToFirstThrow("networkRestored", onNetworkRestoredHandlers, fired')
      /\ ~Running =>
           /\ ~FiredOf("networkRestored", fired')
           /\ ~FiredOf("stillNoNetwork", fired') ]_vars

(***************************************************************************)
(* C2, as stated: while Polling, a polling probe reporting unreachable     *)
(* invokes every still-no-network handler in insertion order, no restored  *)
(* handler, and the monitor stays Polling.                                 *)
(***************************************************************************)
C2_EveryStillHandler ==
  [][ (Running /\ PollProbeDone(ev', "unreachable")) =>
        /\ fired' = AllOf("stillNoNetwork", onStillNoNetworkHandlers)
        /\ Running' ]_vars

(***************************************************************************)
(* C2, amended: while Polling, a polling probe reporting unreachable       *)
(* invokes the still-no-network handlers in insertion order up to and      *)
(* including the first one that throws (all of them when none throws), no  *)
(* handler of another registry, and the monitor stays Polling with its     *)
(* timer.                                                                  *)
(***************************************************************************)
C2_StillHandlersUpToThrow ==
  [][ (Running /\ PollProbeDone(ev', "unreachable")) =>
        /\ UpToFirstThrow("stillNoNetwork", onStillNoNetworkHandlers, fired')
        /\ noNetworkJitter' = noNetworkJitter ]_vars

C2_Witness ==
  /\ PollProbeDone(ev, "unreachable")
  /\ Running
  /\ fired = AllOf("stillNoNetwork", onStillNoNetworkHandlers)
  /\ Len(fired) = 2
  /\ pollProbes > 0

(***************************************************************************)
(* C3, as stated: a response with ok false followed by a catch-clause      *)
(* probe reporting unreachable invokes every no-network handler once, in   *)
(* insertion order, nothing else, and leaves the monitor Polling.          *)
(***************************************************************************)
C3_EveryNoNetworkHandler ==
  [][ (FailureProbeDone(ev', "unreachable") /\ ev'.value.type = "Response") =>
        /\ fired' = AllOf("noNetwork", onNoNetworkHandlers)
        /\ Running' ]_vars

(***************************************************************************)
(* C3, amended: a response with ok false followed by a catch-clause probe  *)
(* reporting unreachable invokes the no-network handlers in insertion      *)
(* order up to and including the first one that throws and no handler of   *)
(* another registry; when none throws, all are invoked once and the        *)
(* monitor is left Polling; when one throws the monitor keeps its state.   *)
(***************************************************************************)
C3_NoNetworkHandlersUpToThrow ==
  [][ (FailureProbeDone(ev', "unreachable") /\ ev'.value.type = "Response") =>
        /\ UpToFirstThrow("noNetwork", onNoNetworkHandlers, fired')
        /\ (\A i \in DOMAIN onNoNetworkHandlers :
              onNoNetworkHandlers[i].handler = "returns") => Running'
        /\ (\E i \in DOMAIN onNoNetworkHandlers :
              onNoNetworkHandlers[i].handler = "throws")
             => noNetworkJitter' = noNetworkJitter ]_vars

C3_Witness ==
  /\ FailureProbeDone(ev, "unreachable")
  /\ ev.value = Response(404)
  /\ fired = AllOf("noNetwork", onNoNetworkHandlers)
  /\ Len(fired) = 2
  /\ Running
  /\ noNetworkJitter.timers = 1

(***************************************************************************)
(* C4: there is never more than one live timer, it is live exactly while   *)
(* the monitor is Polling, and an elapsed interval issues exactly one      *)
(* probe, however many failed requests have started the monitor.           *)
(***************************************************************************)
C4_SinglePollingLoop ==
  [][ /\ noNetworkJitter'.timers <= 1
      /\ noNetworkJitter'.running <=> (noNetworkJitter'.timers = 1)
      /\ ev'.op = "tick" => pollProbes' = pollProbes + 1 ]_vars

\* a failure starts the monitor while its polling probes are in flight and another
\* failed call is still waiting for its own probe
C4_Witness ==
  /\ FailureProbeDone(ev, "unreachable")
  /\ Running
  /\ noNetworkJitter.timers = 1
  /\ pollProbes = 2
  /\ \E c \in BagToSet(calls) : c.phase = "probing"

(***************************************************************************)
(* C5: a call ends resolved with the ok response or rejected with the      *)
(* value the transport failed with (the non-ok response or the rejection   *)
(* cause), never both and never anything else; the promise of a failed     *)
(* call is still rejected with that value when its catch-clause probe has  *)
(* settled, whatever the probe gave and whatever the handlers did.         *)
(***************************************************************************)
C5_OneOutcomePerCall ==
  /\ FetchSucceeded(ev) => settled = Resolved(ev.value)
  /\ FetchFailed(ev) => settled = Rejected(ev.value)
  /\ ev.op = "failureProbe" => settled = Rejected(ev.value)
  /\ \A c \in BagToSet(calls) :
       c.phase = "probing" => c.outcome = Rejected(c.transport.value)

\* a rejected fetch whose catch-clause probe found no network and whose first
\* no-network handler threw
C5_Witness ==
  /\ FailureProbeDone(ev, "unreachable")
  /\ ev.value = NetworkError
  /\ settled = Rejected(NetworkError)
  /\ Len(onNoNetworkHandlers) = 2
  /\ Len(fired) = 1

(***************************************************************************)
(* C6: a call whose fetch resolves with ok true issues no connectivity     *)
(* probe, invokes no handler and leaves the monitor and the pending probes *)
(* as they were.                                                           *)
(***************************************************************************)
C6_SuccessHasNoSideEffect ==
  [][ FetchSucceeded(ev') =>
        /\ calls' = calls (-) One(Fetching)
        /\ fired' = <<>>
        /\ UNCHANGED <<noNetworkJitter, pollProbes, checkNetworkInterval,
                       registries>> ]_vars

C6_Witness ==
  /\ FetchSucceeded(ev)
  /\ settled = Resolved(Response(200))
  /\ onNoNetworkHandlers # <<>>
  /\ Running
  /\ calls = EmptyBag

(***************************************************************************)
(* C7: when the catch-clause probe of a failed call reports reachable, no  *)
(* handler is invoked and the monitor (running flag, timer, interval       *)
(* bounds) is left as it was.                                              *)
(***************************************************************************)
C7_ReachableFailureIsInert ==
  [][ FailureProbeDone(ev', "reachable") =>
        /\ fired' = <<>>
        /\ UNCHANGED <<noNetworkJitter, pollProbes>> ]_vars

C7_Witness ==
  /\ FailureProbeDone(ev, "reachable")
  /\ onNoNetworkHandlers # <<>>
  /\ ~Running
  /\ noNetworkJitter.minInterval = LibraryInterval
  /\ checkNetworkInterval # DefaultCheckNetworkInterval

(***************************************************************************)
(* C8, as stated: a polling probe that rejects is treated as unreachable:  *)
(* the still-no-network handlers are invoked for that cycle and the        *)
(* monitor stays Polling.                                                  *)
(***************************************************************************)
C8_RejectedProbeNotifies ==
  [][ (Running /\ PollProbeDone(ev', "rejected")) =>
        /\ UpToFirstThrow("stillNoNetwork", onStillNoNetworkHandlers, fired')
        /\ Running' ]_vars

(***************************************************************************)
(* C8, amended: a polling probe that rejects invokes no handler of any     *)
(* registry for that cycle; the monitor stays Polling with its timer and   *)
(* its interval bounds, so later cycles keep probing; the rejection        *)
(* settles no caller's promise and touches no call in flight.              *)
(***************************************************************************)
C8_RejectedProbeIsSilent ==
  [][ (Running /\ PollProbeDone(ev', "rejected")) =>
        /\ fired' = <<>>
        /\ noNetworkJitter' = noNetworkJitter
        /\ noNetworkJitter'.timers = 1
        /\ settled' = Pending
        /\ calls' = calls ]_vars

C8_Witness ==
  /\ PollProbeDone(ev, "rejected")
  /\ Running
  /\ onStillNoNetworkHandlers # <<>>
  /\ fired = <<>>
  /\ pollProbes > 0

(***************************************************************************)
(* C9: a rejected fetch and a response with ok false take the same path:   *)
(* either one rejects the caller with the failure value and issues one     *)
(* catch-clause probe, and what that probe's continuation does depends on  *)
(* the probe's result and on the state, not on the kind of failure.        *)
(***************************************************************************)
C9_SameFailurePath ==
  [][ /\ FetchFailed(ev') =>
           /\ settled' = Rejected(ev'.value)
           /\ calls' = (calls (-) One(Fetching))
                         (+) One(Probing([settled |-> ev'.result,
                                          value |-> ev'.value]))
      /\ \A result \in ProbeResults : FailureProbeDone(ev', result) =>
           /\ settled' = Rejected(ev'.value)
           /\ BagCardinality(calls') = BagCardinality(calls) - 1
           /\ IF result = "unreachable"
                THEN /\ UpToFirstThrow("noNetwork", onNoNetworkHandlers, fired')
                     /\ Running' <=> (Running \/ ~Throws(onNoNetworkHandlers))
                ELSE /\ fired' = <<>>
                     /\ noNetworkJitter' = noNetworkJitter ]_vars

\* the two kinds of failure wait for their probes side by side
C9_Witness ==
  /\ FetchFailed(ev)
  /\ BagIn(Probing([settled |-> "reject", value |-> NetworkError]), calls)
  /\ BagIn(Probing([settled |-> "resolve", value |-> Response(404)]), calls)

(***************************************************************************)
(* C10: the caller of a failed call has its rejection while the            *)
(* catch-clause probe is still pending, so also when that probe never      *)
(* settles; a probe that settles later with unreachable still notifies.    *)
(***************************************************************************)
C10_RejectedBeforeProbe ==
  [][ /\ \A c \in BagToSet(calls') :
           c.phase = "probing" => c.outcome.status = "rejected"
      /\ FetchFailed(ev') =>
           /\ settled'.status = "rejected"
           /\ \E c \in BagToSet(calls') : c.phase = "probing"
      /\ FailureProbeDone(ev', "unreachable") =>
           UpToFirstThrow("noNetwork", onNoNetworkHandlers, fired') ]_vars

\* a rejection delivered several jobs ago, its probe still pending
C10_Witness ==
  /\ ev.op = "tick"
  /\ \E c \in BagToSet(calls) :
       c.phase = "probing" /\ c.outcome = Rejected(Response(404))
  /\ onNoNetworkHandlers # <<>>

(***************************************************************************)
(* Vocabulary of the registry properties.                                  *)
(***************************************************************************)
\* map2 holds the entries of map whose id is not h, in the order they have in map
KeptInOrder(map, h, map2) ==
  LET keep == {i \in DOMAIN map : map[i].id # h} IN
    /\ Len(map2) = Cardinality(keep)
    /\ \A i \in keep : map2[Cardinality({j \in keep : j <= i})] = map[i]

\* an add appends one entry under the next id; a job that is neither an add nor a
\* remove of this registry leaves its entries alone
AddsAtTheEnd(addOp, removeOp, map, map2, counter, e2) ==
  /\ e2.op = addOp =>
       \E handler \in Handlers :
         map2 = map \o <<[id |-> counter + 1, handler |-> handler]>>
  /\ e2.op \notin {addOp, removeOp} => map2 = map

\* what a firing of the registry invokes: every entry, or the entries up to the
\* first handler that throws
Visits(exactlyAll, name, map, f) ==
  IF exactlyAll THEN f = AllOf(name, map) ELSE UpToFirstThrow(name, map, f)

RegistryContract(exactlyAll) ==
  /\ AddsAtTheEnd("addOnNoNetworkHandler", "removeOnNoNetworkHandler",
                  onNoNetworkHandlers, onNoNetworkHandlers',
                  noNetworkHandlerId, ev')
  /\ AddsAtTheEnd("addOnNetworkRestoredHandler", "removeOnNetworkRestoredHandler",
                  onNetworkRestoredHandlers, onNetworkRestoredHandlers',
                  networkRestoredHandlerId, ev')
  /\ AddsAtTheEnd("addOnStillNoNetworkHandler", "removeOnStillNoNetworkHandler",
                  onStillNoNetworkHandlers, onStillNoNetworkHandlers',
                  stillNoNetworkHandlerId, ev')
  /\ \A h \in 1..(noNetworkHandlerId + 1) :
       RemoveOnNoNetworkHandlerCall(h) =>
         KeptInOrder(onNoNetworkHandlers, h, onNoNetworkHandlers')
  /\ \A h \in 1..(networkRestoredHandlerId + 1) :
       RemoveOnNetworkRestoredHandlerCall(h) =>
         KeptInOrder(onNetworkRestoredHandlers, h, onNetworkRestoredHandlers')
  /\ \A h \in 1..(stillNoNetworkHandlerId + 1) :
       RemoveOnStillNoNetworkHandlerCall(h) =>
         KeptInOrder(onStillNoNetworkHandlers, h, onStillNoNetworkHandlers')
  /\ FailureProbeDone(ev', "unreachable") =>
       Visits(exactlyAll, "noNetwork", onNoNetworkHandlers, fired')
  /\ PollProbeDone(ev', "reachable") =>
       Visits(exactlyAll, "networkRestored", onNetworkRestoredHandlers, fired')
  /\ PollProbeDone(ev', "unreachable") =>
       Visits(exactlyAll, "stillNoNetwork", onStillNoNetworkHandlers, fired')

(***************************************************************************)
(* C11, as stated: over every sequence of adds and removes a registry      *)
(* holds the handles added and not removed, in the order of their adds,    *)
(* and a firing of the registry invokes every one of them once, in that    *)
(* order.                                                                  *)
(***************************************************************************)
C11_FiresEveryLiveHandle == [][RegistryContract(TRUE)]_vars

(***************************************************************************)
(* C11, amended: over every sequence of adds and removes a registry holds  *)
(* the handles added and not removed, in the order of their adds, and a    *)
(* firing of the registry invokes them once each in that order, up to and  *)
(* including the first one that throws (all of them when none throws).     *)
(***************************************************************************)
C11_FiresLiveHandlesUpToThrow == [][RegistryContract(FALSE)]_vars

\* three adds, the handle between the two others removed, then a firing that
\* visits the two survivors in the order of their adds
C11_Witness ==
  /\ FailureProbeDone(ev, "unreachable")
  /\ noNetworkHandlerId = 3
  /\ onNoNetworkHandlers = <<[id |-> 1, handler |-> "returns"],
                             [id |-> 3, handler |-> "returns"]>>
  /\ fired = <<<<"noNetwork", 1>>, <<"noNetwork", 3>>>>

(***************************************************************************)
(* C12: the counters start at 0, so the first handle of a registry is 1;   *)
(* every add returns the previous handle plus one, larger than every id    *)
(* the registry holds, and no other job changes a counter: a handle is     *)
(* never returned twice, also after its entry was removed.                 *)
(***************************************************************************)
IssuesNextHandle(addOp, map, map2, counter, counter2, e2) ==
  /\ e2.op = addOp =>
       /\ counter2 = counter + 1
       /\ map2 # <<>>
       /\ map2[Len(map2)].id = counter2
       /\ \A i \in DOMAIN map : map[i].id < counter2
  /\ e2.op # addOp => counter2 = counter
  /\ \A i \in DOMAIN map2 : map2[i].id \in 1..counter2
  /\ \A i, j \in DOMAIN map2 : i < j => map2[i].id < map2[j].id

C12_HandlesStrictlyIncrease ==
  /\ noNetworkHandlerId = 0
  /\ networkRestoredHandlerId = 0
  /\ stillNoNetworkHandlerId = 0
  /\ [][ /\ IssuesNextHandle("addOnNoNetworkHandler", onNoNetworkHandlers,
                             onNoNetworkHandlers', noNetworkHandlerId,
                             noNetworkHandlerId', ev')
         /\ IssuesNextHandle("addOnNetworkRestoredHandler",
                             onNetworkRestoredHandlers, onNetworkRestoredHandlers',
                             networkRestoredHandlerId, networkRestoredHandlerId',
                             ev')
         /\ IssuesNextHandle("addOnStillNoNetworkHandler",
                             onStillNoNetworkHandlers, onStillNoNetworkHandlers',
                             stillNoNetworkHandlerId, stillNoNetworkHandlerId',
                             ev') ]_vars

\* handle 1 was removed before the second add, which returned 2
C12_Witness ==
  /\ ev.op = "addOnNoNetworkHandler"
  /\ noNetworkHandlerId = 2
  /\ Len(onNoNetworkHandlers) = 1
  /\ onNoNetworkHandlers[1].id = 2

(***************************************************************************)
(* C13: a remove with a handle the registry does not hold (never issued,   *)
(* or removed before) can always be made and leaves the entries, their     *)
(* order and the counters of all registries as they were.                  *)
(***************************************************************************)
C13_RemoveAbsentIsNoOp ==
  [][ /\ \A h \in 1..(noNetworkHandlerId + 1) :
           (RemoveOnNoNetworkHandlerCall(h) /\ ~HasKey(onNoNetworkHandlers, h))
             => UNCHANGED registries
      /\ \A h \in 1..(networkRestoredHandlerId + 1) :
           (RemoveOnNetworkRestoredHandlerCall(h)
              /\ ~HasKey(onNetworkRestoredHandlers, h))
             => UNCHANGED registries
      /\ \A h \in 1..(stillNoNetworkHandlerId + 1) :
           (RemoveOnStillNoNetworkHandlerCall(h)
              /\ ~HasKey(onStillNoNetworkHandlers, h))
             => UNCHANGED registries
      /\ ENABLED RemoveOnNoNetworkHandlerCall(noNetworkHandlerId + 1)
      /\ ENABLED RemoveOnNetworkRestoredHandlerCall(networkRestoredHandlerId + 1)
      /\ ENABLED RemoveOnStillNoNetworkHandlerCall(stillNoNetworkHandlerId + 1)
    ]_vars

\* a remove after which both handles ever issued are still held: its handle was
\* not one of them
C13_Witness ==
  /\ ev.op = "removeOnNoNetworkHandler"
  /\ noNetworkHandlerId = 2
  /\ Len(onNoNetworkHandlers) = 2

(***************************************************************************)
(* C14: the object a POST helper passes on holds the fields of data and,   *)
(* when the CSRF name and the CSRF value are both truthy, the field named  *)
(* by the name, set to the string or to what the producer function returns *)
(* at that moment; when either is not truthy it has exactly the fields of  *)
(* data; data itself is as the caller passed it, and what is passed on is  *)
(* another object than data.                                               *)
(***************************************************************************)
C14_DecoratesCopyWithToken ==
  ev.op \in {"POSTJSON", "POSTFormURLEncoded"} =>
    /\ posted.dataAfter = posted.data
    /\ ~posted.bodyIsData
    /\ Len(posted.body) = Cardinality(Keys(posted.body))
    /\ \A k \in Keys(posted.data) :
         k # CSRFTokenName.str \/ ~(Truthy(CSRFTokenName) /\ Truthy(CSRFTokenValue))
           => (k \in Keys(posted.body) /\ Get(posted.body, k) = Get(posted.data, k))
    /\ IF Truthy(CSRFTokenName) /\ Truthy(CSRFTokenValue)
         THEN /\ Keys(posted.body) = Keys(posted.data) \cup {CSRFTokenName.str}
              /\ Get(posted.body, CSRFTokenName.str) =
                   (IF CSRFTokenValue = Producer
                      THEN tokenSource ELSE CSRFTokenValue.str)
         ELSE posted.body = posted.data

\* a producer function configured after the page's token changed
C14_Witness ==
  /\ ev.op = "POSTJSON"
  /\ CSRFTokenName = Str("csrf")
  /\ CSRFTokenValue = Producer
  /\ posted.data = <<Field("a", "1")>>
  /\ posted.body = <<Field("a", "1"), Field("csrf", "dyn2")>>

(***************************************************************************)
(* C15: the monitor goes from Idle to Polling only in the continuation of  *)
(* a catch-clause probe that reported unreachable, and from Polling to     *)
(* Idle only in the continuation of a polling probe that reported          *)
(* reachable; no other job (a successful call, a failed call whose probe   *)
(* reported reachable or rejected, a tick, an add or a remove of a         *)
(* handler, a change of the configuration) changes whether it runs.        *)
(***************************************************************************)
C15_OnlyTwoTransitions ==
  [][ /\ (~Running /\ Running') => FailureProbeDone(ev', "unreachable")
      /\ (Running /\ ~Running') => PollProbeDone(ev', "reachable")
      /\ ~(FailureProbeDone(ev', "unreachable") \/ PollProbeDone(ev', "reachable"))
           => /\ noNetworkJitter'.running = noNetworkJitter.running
              /\ noNetworkJitter'.timers = noNetworkJitter.timers ]_vars

\* a failed call whose probe reported reachable, while the monitor polls
C15_Witness ==
  /\ FailureProbeDone(ev, "reachable")
  /\ Running
  /\ pollProbes > 0
  /\ onNoNetworkHandlers # <<>>

(***************************************************************************)
(* C16: when the continuation of a catch-clause probe that reported        *)
(* unreachable starts the monitor (no no-network handler throws), also     *)
(* when the monitor is already Polling, both interval bounds become the    *)
(* value checkNetworkInterval has in that job, the monitor runs, and every *)
(* no-network handler has been invoked; the bounds and the running flag    *)
(* are never changed by that continuation unless every no-network handler  *)
(* has been invoked.                                                       *)
(***************************************************************************)
C16_BoundsSetAfterNotifying ==
  [][ FailureProbeDone(ev', "unreachable") =>
        /\ ~Throws(onNoNetworkHandlers) =>
             /\ noNetworkJitter'.minInterval = checkNetworkInterval
             /\ noNetworkJitter'.maxInterval = checkNetworkInterval
             /\ checkNetworkInterval' = checkNetworkInterval
             /\ Running'
             /\ fired' = AllOf("noNetwork", onNoNetworkHandlers)
        /\ noNetworkJitter' # noNetworkJitter =>
             fired' = AllOf("noNetwork", onNoNetworkHandlers) ]_vars

\* a second failure during an outage, after the interval was changed to 1000
C16_Witness ==
  /\ FailureProbeDone(ev, "unreachable")
  /\ Running
  /\ pollProbes > 0
  /\ checkNetworkInterval = 1000
  /\ noNetworkJitter.minInterval = 1000
  /\ noNetworkJitter.maxInterval = 1000
  /\ fired # <<>>

(***************************************************************************)
(* C17, as stated: the continuation of every catch-clause probe that       *)
(* reported unreachable invokes every no-network handler once, also when   *)
(* the monitor is already Polling, and the monitor then runs with a single *)
(* timer.                                                                  *)
(***************************************************************************)
C17_EveryFailureNotifiesAll ==
  [][ FailureProbeDone(ev', "unreachable") =>
        /\ fired' = AllOf("noNetwork", onNoNetworkHandlers)
        /\ noNetworkJitter'.timers = 1 ]_vars

(***************************************************************************)
(* C17, amended: the continuation of every catch-clause probe that         *)
(* reported unreachable fires the no-network registry, also when the       *)
(* monitor is already Polling: the handlers are invoked once each in       *)
(* insertion order up to and including the first one that throws (all of   *)
(* them when none throws), so k such failures fire the registry k times;   *)
(* the monitor never has more than one timer, and a monitor that was       *)
(* Polling still polls with its one timer; when no handler throws the      *)
(* monitor polls afterwards, and when one throws it is not started: it     *)
(* keeps the running flag and the timer it had.                            *)
(***************************************************************************)
C17_EveryFailureFiresRegistry ==
  [][ FailureProbeDone(ev', "unreachable") =>
        /\ UpToFirstThrow("noNetwork", onNoNetworkHandlers, fired')
        /\ onNoNetworkHandlers # <<>> => fired' # <<>>
        /\ noNetworkJitter'.timers <= 1
        /\ Running => (Running' /\ noNetworkJitter'.timers = 1)
        /\ ~Throws(onNoNetworkHandlers) =>
             (Running' /\ noNetworkJitter'.timers = 1)
        /\ Throws(onNoNetworkHandlers) =>
             /\ Running' = Running
             /\ noNetworkJitter'.timers = noNetworkJitter.timers ]_vars

\* a failure notified while the monitor polls and another failed call still
\* waits for its probe
C17_Witness ==
  /\ FailureProbeDone(ev, "unreachable")
  /\ Running
  /\ noNetworkJitter.timers = 1
  /\ pollProbes = 1
  /\ Len(fired) = 2
  /\ \E c \in BagToSet(calls) : c.phase = "probing"

(***************************************************************************)
(* Vocabulary of the liveness property.                                    *)
(***************************************************************************)
\* the last job was not a probe that reported anything but reachable
EveryProbeReachable ==
  ev.op \in {"pollProbe", "failureProbe"} => ev.result = "reachable"

(***************************************************************************)
(* C18, as stated: if from some point on every probe reports reachable,    *)
(* then, the timer firing and the probes settling, a Polling monitor       *)
(* leads to a polling probe's continuation that leaves the monitor Idle    *)
(* and has invoked every restored handler.                                 *)
(***************************************************************************)
C18_EveryRestoredHandlerInvoked ==
  (<>[]EveryProbeReachable) =>
    (Running ~> (/\ PollProbeDone(ev, "reachable")
                 /\ ~Running
                 /\ fired = AllOf("networkRestored", onNetworkRestoredHandlers)))

(***************************************************************************)
(* C18, amended: if from some point on every probe reports reachable,      *)
(* then, the timer firing and the probes settling, a Polling monitor       *)
(* leads to a polling probe's continuation that leaves the monitor Idle    *)
(* and has invoked the restored handlers in insertion order up to and      *)
(* including the first one that throws (all of them when none throws).     *)
(***************************************************************************)
C18_PollingLeadsToRestored ==
  (<>[]EveryProbeReachable) =>
    (Running ~> (/\ PollProbeDone(ev, "reachable")
                 /\ ~Running
                 /\ UpToFirstThrow("networkRestored", onNetworkRestoredHandlers,
                                   fired)))

\* the monitor stopped by a probe issued after an earlier probe of the same
\* outage had reported unreachable
C18_Witness ==
  /\ PollProbeDone(ev, "reachable")
  /\ ~Running
  /\ noNetworkJitter.timers = 0
  /\ Len(fired) = 2
  /\ fired = AllOf("networkRestored", onNetworkRestoredHandlers)
  /\ pollProbes = 0

(***************************************************************************)
(* C19: when a no-network handler throws in the continuation of a          *)
(* catch-clause probe that reported unreachable, the handlers after it are *)
(* not invoked, the monitor keeps its running flag, its timer and its      *)
(* interval bounds, and the caller's promise is rejected with the value    *)
(* the call failed with.                                                   *)
(***************************************************************************)
C19_ThrowingHandlerStopsFailurePath ==
  [][ (FailureProbeDone(ev', "unreachable") /\ Throws(onNoNetworkHandlers)) =>
        /\ \E n \in DOMAIN onNoNetworkHandlers :
             /\ onNoNetworkHandlers[n].handler = "throws"
             /\ \A i \in 1..(n - 1) : onNoNetworkHandlers[i].handler = "returns"
             /\ fired' = [i \in 1..n |-> <<"noNetwork", onNoNetworkHandlers[i].id>>]
        /\ noNetworkJitter' = noNetworkJitter
        /\ settled' = Rejected(ev'.value)
        /\ ev'.value \in {NetworkError, Response(404)} ]_vars

\* the first of two handlers threw during an outage whose interval had been
\* changed: the second was not invoked and the bounds were not updated
C19_Witness ==
  /\ FailureProbeDone(ev, "unreachable")
  /\ ev.value = Response(404)
  /\ settled = Rejected(Response(404))
  /\ Len(onNoNetworkHandlers) = 2
  /\ onNoNetworkHandlers[1].handler = "throws"
  /\ onNoNetworkHandlers[2].handler = "returns"
  /\ fired = <<<<"noNetwork", onNoNetworkHandlers[1].id>>>>
  /\ Running
  /\ checkNetworkInterval = 1000
  /\ noNetworkJitter.minInterval = DefaultCheckNetworkInterval

====
